---- MODULE Spec2Model ----
(***************************************************************************)
(* CQL wire value decoder (ccassandra/cql_types.cpp): subtype resolution   *)
(* for composite types and the byte-level Deserialize of tuples and lists. *)
(*                                                                         *)
(* Two specifications share the module.  Spec runs one Deserialize call    *)
(* tree over a byte window, one action per loop step of the composite      *)
(* decoders, with the C++ call stack explicit.  SpecResolve runs one       *)
(* FromPython construction over a type descriptor, with the heap of        *)
(* CqlTypeReference objects explicit.                                      *)
(***************************************************************************)
EXTENDS Integers, Sequences, FiniteSets, TLC

VARIABLES
    window,   \* the bytes handed to the top-level Deserialize
    stack,    \* active Deserialize calls, innermost last
    ret,      \* what the call that just returned handed to its caller
    last,     \* the frame of the call that returned most recently
    events,   \* what the decode met so far (history)
    desc,     \* the type descriptor handed to FromPython
    heap,     \* CqlTypeReference allocations: next id and the new/delete log
    rs,       \* outcome of the top-level ResolveSubtypes call (history)
    built,    \* what FromPython returned
    rpc       \* position of the construction: "start", "built", "released"

vars == <<window, stack, ret, last, events, desc, heap, rs, built, rpc>>
decodeVars == <<window, stack, ret, last, events>>
resolveVars == <<desc, heap, rs, built, rpc>>

(***************************************************************************)
(* Bounds of the model.                                                    *)
(***************************************************************************)
\* Fields (2-byte, 4-byte or 1-byte chunks) concatenated into a window.
MaxFields == 3
\* Subtypes a top-level descriptor may declare.
MaxSubtypes == 4

(***************************************************************************)
(* Sequences.                                                              *)
(***************************************************************************)
Front(s) == SubSeq(s, 1, Len(s) - 1)
Top(s) == s[Len(s)]

RECURSIVE SumSeq(_)
SumSeq(s) == IF s = <<>> THEN 0 ELSE s[1] + SumSeq(Tail(s))

RECURSIVE Flatten(_)
Flatten(ss) == IF ss = <<>> THEN <<>> ELSE ss[1] \o Flatten(Tail(ss))

(***************************************************************************)
(* Primitive codec (marshal.hpp): big-endian two's-complement integers.    *)
(***************************************************************************)
UnpackInt16(d) ==
    IF d[1] >= 128 THEN (d[1] - 256) * 256 + d[2] ELSE d[1] * 256 + d[2]

UnpackInt32(d) ==
    (IF d[1] >= 128 THEN d[1] - 256 ELSE d[1]) * 16777216
        + d[2] * 65536 + d[3] * 256 + d[4]

\* The encodings the windows are built from.
PackInt16(v) ==
    LET u == IF v < 0 THEN v + 65536 ELSE v IN <<u \div 256, u % 256>>

PackInt32(v) ==
    IF v < 0 THEN <<255, 255>> \o PackInt16(v) ELSE <<0, 0>> \o PackInt16(v)

(***************************************************************************)
(* CQL types: a kind and the subtypes in declaration order.                *)
(***************************************************************************)
SimpleType(k) == [kind |-> k, subs |-> <<>>]
BytesType == SimpleType("Bytes")
BooleanType == SimpleType("Boolean")
Int32Type == SimpleType("Int32")
TupleType(subs) == [kind |-> "Tuple", subs |-> subs]
ListType(item) == [kind |-> "List", subs |-> <<item>>]

IsSimple(t) == t.kind \in {"Bytes", "Boolean", "Int32"}

(***************************************************************************)
(* Values.  A container is its length and its populated slots: a slot      *)
(* PyTuple_New / PyList_New left NULL is absent from the slots' domain.    *)
(***************************************************************************)
Value(tag, bytes, len, slots) ==
    [tag |-> tag, bytes |-> bytes, len |-> len, slots |-> slots]
Null == Value("Null", <<>>, 0, <<>>)
NoValue == Value("None", <<>>, 0, <<>>)
Scalar(tag, bytes) == Value(tag, bytes, 0, <<>>)

\* PyTuple_SetItem / PyList_SetItem: 0-based position pos of a container.
SetItem(obj, pos, v) ==
    [obj EXCEPT !.slots =
        [j \in (DOMAIN obj.slots) \cup {pos + 1} |->
            IF j = pos + 1 THEN v ELSE obj.slots[j]]]

Populated(obj, pos) == (pos + 1) \in DOMAIN obj.slots

(***************************************************************************)
(* Buffer (cql_types.hpp): a bounded cursor over window[base+1..base+len]. *)
(* Consume(n) fails, leaving the cursor alone, when fewer than n bytes     *)
(* remain; n is a size_t, so a negative argument is a huge request.        *)
(***************************************************************************)
Residual(f) == f.len - f.pos
CanConsume(f, n) == n >= 0 /\ n <= Residual(f)
Consume(f, n) == [f EXCEPT !.pos = @ + n]
Data(f, n) == SubSeq(window, f.base + f.pos + 1, f.base + f.pos + n)

(***************************************************************************)
(* One Deserialize call: its type, its Buffer (base, len, pos), the        *)
(* protocol version passed in (inpv) and in effect (pv), its place in the  *)
(* loop (phase, i), the container under construction (obj), and history:   *)
(* the width w of its count/size fields, every size field read (sizes),    *)
(* the values stored by SetItem in the loop (decoded), and how the loop    *)
(* ended (brk).                                                            *)
(***************************************************************************)
NewFrame(type, base, len, pv) ==
    [type |-> type, base |-> base, len |-> len, pos |-> 0,
     inpv |-> pv, pv |-> pv, phase |-> "entry", i |-> 0, count |-> 0,
     missing |-> 0, obj |-> NoValue, w |-> 0,
     sizes |-> <<>>, decoded |-> <<>>, brk |-> "none"]

NoFrame == [NewFrame(BytesType, 0, 0, 0) EXCEPT !.phase = "none"]

NoRet == [status |-> "none", err |-> "", value |-> NoValue]
Ok(v) == [status |-> "ok", err |-> "", value |-> v]
Err(e) == [status |-> "err", err |-> e, value |-> NoValue]

\* The innermost call returns r to its caller; f is its frame as it ends.
Return(f, r) ==
    /\ stack' = Front(stack)
    /\ ret' = r
    /\ last' = f

Note(e) == events' = events \cup {e}

(***************************************************************************)
(* Simple types: fixed-size reads fail with EOFError when short.           *)
(***************************************************************************)
SimpleSize(t) == IF t.kind = "Int32" THEN 4 ELSE 1

SimpleDeserialize(f) ==
    IF f.type.kind = "Bytes"
    THEN [frame |-> Consume(f, Residual(f)),
          ret |-> Ok(Scalar("Bytes", Data(f, Residual(f))))]
    ELSE IF ~CanConsume(f, SimpleSize(f.type))
    THEN [frame |-> f, ret |-> Err("EOFError")]
    ELSE [frame |-> Consume(f, SimpleSize(f.type)),
          ret |-> Ok(IF f.type.kind = "Int32"
                     THEN Scalar("Int32", <<UnpackInt32(Data(f, 4))>>)
                     ELSE Scalar("Boolean",
                                 <<IF Data(f, 1)[1] # 0 THEN 1 ELSE 0>>))]

SimpleDeserializeStep ==
    /\ stack # <<>>
    /\ LET f == Top(stack) IN
        /\ IsSimple(f.type)
        /\ f.phase = "entry"
        /\ LET r == SimpleDeserialize(f) IN
            /\ Return([r.frame EXCEPT !.phase = "done"], r.ret)
            /\ IF r.ret.status = "err" THEN Note("ScalarTruncated")
                                       ELSE UNCHANGED events
    /\ UNCHANGED <<window, resolveVars>>

(***************************************************************************)
(* Pieces shared by the tuple and list decoders.                           *)
(***************************************************************************)
\* Mutant: the sign of the size field is not checked.
NegativeSizeUnchecked(size) == FALSE

\* The size check before the item buffer is carved out.
NegativeSize(size) == size < 0

\* Mutant: the item buffer runs to the end of the outer buffer.
ItemBufferToEnd(f, size) == [base |-> f.base + f.pos, len |-> Residual(f)]

\* Buffer itemBuffer(itemData, size): the item's own window, lying right
\* behind the size field just read from f.
ItemBuffer(f, size) == [base |-> f.base + f.pos, len |-> size]

\* The call made on the item buffer.
ItemCall(type, f, size, pv) ==
    NewFrame(type, ItemBuffer(f, size).base, ItemBuffer(f, size).len, pv)

\* if (!itemData): the buffer cannot supply the declared size.
ItemUnavailable(f, size) == ~CanConsume(f, size)

\* Mutant: the item's result is stored without the NULL check.
ItemFailureIgnored(r) == FALSE

\* if (!des): the item's Deserialize failed.
ItemFailed(r) == r.status = "err"

\* What the size field just read from f says, whatever the decoder makes
\* of it (history).
ObserveItem(f, size) ==
    IF size < 0 THEN {"NegativeSize"}
    ELSE IF size > Residual(f) THEN {"ItemTruncated"}
    ELSE {}

\* How the loop's failed size-field read found the buffer.
BreakKind(f) == IF Residual(f) = 0 THEN "exhausted" ELSE "short"
BreakEvent(f) == IF Residual(f) = 0 THEN "Exhausted" ELSE "ShortSizeField"

(***************************************************************************)
(* CqlTupleType::Deserialize                                               *)
(***************************************************************************)
\* Mutant: subtypes are decoded under the negotiated version.
TupleVersionAsNegotiated(protocolVersion) == protocolVersion

\* Items in tuples are always encoded with at least protocol version 3.
TupleVersion(protocolVersion) ==
    IF protocolVersion < 3 THEN 3 ELSE protocolVersion

TupleSizeWidth == 4

TupleNew(n) == Value("Tuple", <<>>, n, <<>>)

\* while (missing--) PyTuple_SetItem(tuple, missing, Py_None);
RECURSIVE TupleBackfill(_, _)
TupleBackfill(tuple, missing) ==
    IF missing = 0 THEN tuple
    ELSE TupleBackfill(SetItem(tuple, missing - 1, Null), missing - 1)

TupleBegin ==
    /\ stack # <<>>
    /\ LET f == Top(stack) IN
        /\ f.type.kind = "Tuple"
        /\ f.phase = "entry"
        /\ stack' = [stack EXCEPT ![Len(stack)] =
              [f EXCEPT !.pv = TupleVersion(f.inpv),
                        !.obj = TupleNew(Len(f.type.subs)),
                        !.count = Len(f.type.subs),
                        !.missing = Len(f.type.subs),
                        !.w = TupleSizeWidth,
                        !.phase = "loop"]]
    /\ UNCHANGED <<window, ret, last, events, resolveVars>>

TupleItem ==
    /\ stack # <<>>
    /\ LET f == Top(stack) IN
        /\ f.type.kind = "Tuple"
        /\ f.phase = "loop"
        /\ f.i < f.count
        /\ IF ~CanConsume(f, TupleSizeWidth)
           THEN /\ stack' = [stack EXCEPT ![Len(stack)] =
                      [f EXCEPT !.phase = "drained", !.brk = BreakKind(f)]]
                /\ Note(BreakEvent(f))
                /\ UNCHANGED <<ret, last>>
           ELSE LET size == UnpackInt32(Data(f, TupleSizeWidth))
                    f1 == [Consume(f, TupleSizeWidth) EXCEPT
                              !.sizes = Append(@, size)]
                IN  /\ events' = events \cup ObserveItem(f1, size)
                    /\ IF NegativeSize(size)
                       THEN Return([f1 EXCEPT !.phase = "done"],
                                   Err("ValueError"))
                       ELSE IF ItemUnavailable(f1, size)
                       THEN Return([f1 EXCEPT !.phase = "done"],
                                   Err("EOFError"))
                       ELSE /\ stack' =
                                 [stack EXCEPT ![Len(stack)] =
                                     [Consume(f1, size) EXCEPT
                                         !.phase = "wait"]]
                                 \o <<ItemCall(f.type.subs[f.i + 1], f1, size, f.pv)>>
                            /\ UNCHANGED <<ret, last>>
    /\ UNCHANGED <<window, resolveVars>>

TupleItemDone ==
    /\ stack # <<>>
    /\ LET f == Top(stack) IN
        /\ f.type.kind = "Tuple"
        /\ f.phase = "wait"
        /\ ret.status # "none"
        /\ IF ItemFailed(ret)
           THEN Return([f EXCEPT !.phase = "done"], ret)
           ELSE /\ stack' = [stack EXCEPT ![Len(stack)] =
                      [f EXCEPT !.obj = SetItem(f.obj, f.i, ret.value),
                                !.decoded = Append(@, ret.value),
                                !.missing = @ - 1,
                                !.i = @ + 1,
                                !.phase = "loop"]]
                /\ ret' = NoRet
                /\ UNCHANGED last
    /\ UNCHANGED <<window, events, resolveVars>>

TupleFinish ==
    /\ stack # <<>>
    /\ LET f == Top(stack) IN
        /\ f.type.kind = "Tuple"
        /\ \/ f.phase = "drained"
           \/ f.phase = "loop" /\ f.i >= f.count
        /\ Return([f EXCEPT !.phase = "done"],
                  Ok(TupleBackfill(f.obj, f.missing)))
    /\ UNCHANGED <<window, events, resolveVars>>

(***************************************************************************)
(* CqlListType::Deserialize                                                *)
(***************************************************************************)
\* Mutant: the field width ignores the protocol version.
SizeSizeFixed(protocolVersion) == 4

\* std::size_t sizeSize = (protocolVersion >= 3 ? 4 : 2);
SizeSize(protocolVersion) == IF protocolVersion >= 3 THEN 4 ELSE 2

\* (protocolVersion >= 3 ? UnpackInt32(data) : UnpackInt16(data))
UnpackField(protocolVersion, data) ==
    IF protocolVersion >= 3 THEN UnpackInt32(data) ELSE UnpackInt16(data)

\* Mutant: the list starts empty and grows with the items stored.
ListNewEmpty(itemCount) == Value("List", <<>>, 0, <<>>)

\* PyList_New(itemCount): every slot NULL.  A negative count, converted
\* through size_t back to Py_ssize_t, is refused by PyList_New.
ListNew(itemCount) == Value("List", <<>>, itemCount, <<>>)
ListNewFails(itemCount) == itemCount < 0

ListBegin ==
    /\ stack # <<>>
    /\ LET f == Top(stack)
           sizeSize == SizeSize(f.inpv)
       IN
        /\ f.type.kind = "List"
        /\ f.phase = "entry"
        /\ IF ~CanConsume(f, sizeSize)
           THEN /\ Return([f EXCEPT !.phase = "done", !.w = sizeSize],
                          Err("EOFError"))
                /\ Note("CountTruncated")
           ELSE LET itemCount == UnpackField(f.inpv, Data(f, sizeSize))
                    f1 == [Consume(f, sizeSize) EXCEPT !.w = sizeSize,
                                                       !.count = itemCount]
                IN  IF ListNewFails(itemCount)
                    THEN /\ Return([f1 EXCEPT !.phase = "done"],
                                   Err("SystemError"))
                         /\ Note("NegativeCount")
                    ELSE /\ stack' = [stack EXCEPT ![Len(stack)] =
                               [f1 EXCEPT !.obj = ListNew(itemCount),
                                          !.phase = "loop"]]
                         /\ UNCHANGED <<ret, last, events>>
    /\ UNCHANGED <<window, resolveVars>>

ListItem ==
    /\ stack # <<>>
    /\ LET f == Top(stack) IN
        /\ f.type.kind = "List"
        /\ f.phase = "loop"
        /\ f.i < f.count
        /\ IF ~CanConsume(f, f.w)
           THEN /\ stack' = [stack EXCEPT ![Len(stack)] =
                      [f EXCEPT !.phase = "drained", !.brk = BreakKind(f)]]
                /\ Note(BreakEvent(f))
                /\ UNCHANGED <<ret, last>>
           ELSE LET size == UnpackField(f.pv, Data(f, f.w))
                    f1 == [Consume(f, f.w) EXCEPT
                              !.sizes = Append(@, size)]
                IN  /\ events' = events \cup ObserveItem(f1, size)
                    /\ IF NegativeSize(size)
                       THEN Return([f1 EXCEPT !.phase = "done"],
                                   Err("ValueError"))
                       ELSE IF ItemUnavailable(f1, size)
                       THEN Return([f1 EXCEPT !.phase = "done"],
                                   Err("EOFError"))
                       ELSE /\ stack' =
                                 [stack EXCEPT ![Len(stack)] =
                                     [Consume(f1, size) EXCEPT
                                         !.phase = "wait"]]
                                 \o <<ItemCall(f.type.subs[1], f1, size, f.pv)>>
                            /\ UNCHANGED <<ret, last>>
    /\ UNCHANGED <<window, resolveVars>>

ListItemDone ==
    /\ stack # <<>>
    /\ LET f == Top(stack) IN
        /\ f.type.kind = "List"
        /\ f.phase = "wait"
        /\ ret.status # "none"
        /\ IF ItemFailed(ret)
           THEN Return([f EXCEPT !.phase = "done"], ret)
           ELSE /\ stack' = [stack EXCEPT ![Len(stack)] =
                      [f EXCEPT !.obj = SetItem(f.obj, f.i, ret.value),
                                !.decoded = Append(@, ret.value),
                                !.i = @ + 1,
                                !.phase = "loop"]]
                /\ ret' = NoRet
                /\ UNCHANGED last
    /\ UNCHANGED <<window, events, resolveVars>>

ListFinish ==
    /\ stack # <<>>
    /\ LET f == Top(stack) IN
        /\ f.type.kind = "List"
        /\ \/ f.phase = "drained"
           \/ f.phase = "loop" /\ f.i >= f.count
        /\ Return([f EXCEPT !.phase = "done"],
                  Ok(f.obj))
    /\ UNCHANGED <<window, events, resolveVars>>

(***************************************************************************)
(* Type descriptors and the heap of CqlTypeReference objects.              *)
(* A descriptor is its name and, for a composite, the shape of its         *)
(* "subtypes" attribute with the nested descriptors.  A reference is its   *)
(* allocation id, whether it owns its type, and the type's kind and        *)
(* subtype references.  The heap is the next id and the new/delete log.    *)
(***************************************************************************)
SimpleDesc(n) == [name |-> n, shape |-> "none", subtypes |-> <<>>]
CompositeDesc(n, shape, subs) ==
    [name |-> n, shape |-> shape, subtypes |-> subs]

SimpleNames == {"bytes", "boolean", "int32"}

KindOf(name) ==
    CASE name = "bytes" -> "Bytes"
      [] name = "boolean" -> "Boolean"
      [] name = "int32" -> "Int32"
      [] name = "tuple" -> "Tuple"
      [] name = "list" -> "List"
      [] OTHER -> "Unknown"

Allocate(h) == [next |-> h.next + 1, log |-> Append(h.log, <<"new", h.next>>)]
LogDelete(h, id) == [h EXCEPT !.log = Append(@, <<"delete", id>>)]

\* delete of each reference of refs in turn.  Deleting a CqlTypeReference
\* that owns its type destroys the type: ~CqlTupleType deletes every
\* subtype reference, ~CqlListType its item type reference.
RECURSIVE DeleteAll(_, _)
DeleteAll(refs, h) ==
    IF refs = <<>> THEN h
    ELSE LET h1 == LogDelete(h, refs[1].id)
             h2 == IF refs[1].owned THEN DeleteAll(refs[1].subs, h1) ELSE h1
         IN  DeleteAll(Tail(refs), h2)

\* ~CqlTupleType / ~CqlListType on a type holding the references subs.
DestroyType(subs, h) == DeleteAll(subs, h)

\* Mutant: the release loop stops one short (j < size - 1).
ReleaseResolvedButLast(subtypes, h) == DeleteAll(Front(subtypes), h)

\* for (j = 0; j < subtypes.size(); ++j) delete subtypes[j];
ReleaseResolved(subtypes, h) == DeleteAll(subtypes, h)

Failed(h) == [ok |-> FALSE, kind |-> "Unknown", subs |-> <<>>, heap |-> h]

RECURSIVE ReferenceFromPython(_, _), ResolveLoop(_, _, _, _, _)

\* The loop of ResolveSubtypes from (1-based) index i on, with the
\* references resolved so far and the outcome of every attempt so far
\* (a reference id, or 0 for the failed one).
ResolveLoop(pySubtypes, i, subtypes, attempted, h) ==
    IF i > Len(pySubtypes)
    THEN [ok |-> TRUE, subtypes |-> subtypes, attempted |-> attempted,
          heap |-> h]
    ELSE LET r == ReferenceFromPython(pySubtypes[i], h) IN
         IF ~r.ok
         THEN [ok |-> FALSE, subtypes |-> <<>>,
               attempted |-> Append(attempted, 0),
               heap |-> ReleaseResolved(subtypes, r.heap)]
         ELSE ResolveLoop(pySubtypes, i + 1, Append(subtypes, r.ref),
                          Append(attempted, r.ref.id), r.heap)

ResolveSubtypes(pyCqlType, h) ==
    IF pyCqlType.shape \notin {"tuple", "list"}
    THEN [ok |-> FALSE, subtypes |-> <<>>, attempted |-> <<>>, heap |-> h]
    ELSE ResolveLoop(pyCqlType.subtypes, 1, <<>>, <<>>, h)

TupleFromPython(pyCqlType, h) ==
    LET r == ResolveSubtypes(pyCqlType, h) IN
    IF ~r.ok THEN Failed(r.heap)
    ELSE [ok |-> TRUE, kind |-> "Tuple", subs |-> r.subtypes, heap |-> r.heap]

ListFromPython(pyCqlType, h) ==
    LET r == ResolveSubtypes(pyCqlType, h) IN
    IF ~r.ok THEN Failed(r.heap)
    ELSE IF Len(r.subtypes) # 1 THEN Failed(r.heap)
    ELSE [ok |-> TRUE, kind |-> "List", subs |-> <<r.subtypes[1]>>,
          heap |-> r.heap]

\* CqlTypeFactory::ReferenceFromPython: a borrowed reference to the cached
\* simple type, an owned reference to a freshly built composite, or failure.
ReferenceFromPython(pyCqlType, h) ==
    IF pyCqlType.name \in SimpleNames
    THEN [ok |-> TRUE, heap |-> Allocate(h),
          ref |-> [id |-> h.next, owned |-> FALSE,
                   kind |-> KindOf(pyCqlType.name), subs |-> <<>>]]
    ELSE IF pyCqlType.name \in {"tuple", "list"}
    THEN LET t == IF pyCqlType.name = "tuple"
                  THEN TupleFromPython(pyCqlType, h)
                  ELSE ListFromPython(pyCqlType, h)
         IN  IF ~t.ok THEN [ok |-> FALSE, heap |-> t.heap, ref |-> <<>>]
             ELSE [ok |-> TRUE, heap |-> Allocate(t.heap),
                   ref |-> [id |-> t.heap.next, owned |-> TRUE,
                            kind |-> t.kind, subs |-> t.subs]]
    ELSE [ok |-> FALSE, heap |-> h, ref |-> <<>>]

\* Reference ids allocated and not deleted, and how often id was deleted.
Count(log, e) == Cardinality({k \in 1..Len(log) : log[k] = e})
Live(h) ==
    {id \in 1..(h.next - 1) :
        Count(h.log, <<"new", id>>) > Count(h.log, <<"delete", id>>)}

Outcome(r) == [ok |-> r.ok, subtypes |-> r.subtypes, attempted |-> r.attempted]

TupleFromPythonCall ==
    /\ rpc = "start"
    /\ desc.name = "tuple"
    /\ LET t == TupleFromPython(desc, heap) IN
        /\ rs' = Outcome(ResolveSubtypes(desc, heap))
        /\ heap' = t.heap
        /\ built' = [ok |-> t.ok, kind |-> t.kind, subs |-> t.subs]
    /\ rpc' = "built"
    /\ UNCHANGED <<desc, decodeVars>>

ListFromPythonCall ==
    /\ rpc = "start"
    /\ desc.name = "list"
    /\ LET t == ListFromPython(desc, heap) IN
        /\ rs' = Outcome(ResolveSubtypes(desc, heap))
        /\ heap' = t.heap
        /\ built' = [ok |-> t.ok, kind |-> t.kind, subs |-> t.subs]
    /\ rpc' = "built"
    /\ UNCHANGED <<desc, decodeVars>>

\* The owner deletes the composite it was handed.
Release ==
    /\ rpc = "built"
    /\ built.ok
    /\ heap' = DestroyType(built.subs, heap)
    /\ rpc' = "released"
    /\ UNCHANGED <<desc, rs, built, decodeVars>>

(***************************************************************************)
(* Inputs of the decode: a window, a type, a negotiated protocol version.  *)
(***************************************************************************)
FieldValues == {-1, 0, 1, 2, 4}

Chunks ==
    {PackInt32(v) : v \in FieldValues} \cup
    {PackInt16(v) : v \in FieldValues} \cup {<<1>>}

Windows ==
    {Flatten(fs) : fs \in UNION {[1..n -> Chunks] : n \in 0..MaxFields}}

DecodeTypes ==
    { TupleType(<<BytesType, BytesType, BytesType>>),
      TupleType(<<BooleanType, BytesType>>),
      TupleType(<<ListType(BytesType), BytesType>>),
      TupleType(<<TupleType(<<BytesType, Int32Type>>), BytesType>>),
      ListType(BytesType),
      ListType(BooleanType),
      ListType(Int32Type),
      TupleType(<<Int32Type, ListType(BooleanType)>>),
      ListType(ListType(BytesType)),
      ListType(TupleType(<<BytesType, BytesType>>)) }

\* The negotiated protocol version is an integer >= 1.
Versions == {1, 2, 3, 4}

NoDesc == [name |-> "none", shape |-> "none", subtypes |-> <<>>]
NoHeap == [next |-> 1, log |-> <<>>]
NoResolve == [ok |-> FALSE, subtypes |-> <<>>, attempted |-> <<>>]
NoBuilt == [ok |-> FALSE, kind |-> "Unknown", subs |-> <<>>]

Init ==
    /\ window \in Windows
    /\ \E t \in DecodeTypes, pv \in Versions :
          stack = <<NewFrame(t, 0, Len(window), pv)>>
    /\ ret = NoRet
    /\ last = NoFrame
    /\ events = {}
    /\ desc = NoDesc
    /\ heap = NoHeap
    /\ rs = NoResolve
    /\ built = NoBuilt
    /\ rpc = "idle"

Next ==
    \/ SimpleDeserializeStep
    \/ TupleBegin
    \/ TupleItem
    \/ TupleItemDone
    \/ TupleFinish
    \/ ListBegin
    \/ ListItem
    \/ ListItemDone
    \/ ListFinish

Spec == Init /\ [][Next]_vars

(***************************************************************************)
(* Inputs of the construction: a tuple or list descriptor.                 *)
(***************************************************************************)
SubDescs ==
    { SimpleDesc("bytes"),
      SimpleDesc("boolean"),
      SimpleDesc("unknown"),
      CompositeDesc("list", "list", <<SimpleDesc("bytes")>>),
      CompositeDesc("list", "list",
                    <<SimpleDesc("bytes"), SimpleDesc("boolean")>>),
      CompositeDesc("tuple", "tuple",
                    <<SimpleDesc("bytes"), SimpleDesc("unknown")>>),
      CompositeDesc("tuple", "list",
                    <<CompositeDesc("list", "tuple", <<SimpleDesc("int32")>>),
                      SimpleDesc("boolean")>>) }

TopDescs ==
    {CompositeDesc(n, sh, subs) :
        n \in {"tuple", "list"}, sh \in {"tuple", "list"},
        subs \in UNION {[1..k -> SubDescs] : k \in 0..MaxSubtypes}}
    \cup {CompositeDesc(n, "other", <<>>) : n \in {"tuple", "list"}}

InitResolve ==
    /\ window = <<>>
    /\ stack = <<>>
    /\ ret = NoRet
    /\ last = NoFrame
    /\ events = {}
    /\ desc \in TopDescs
    /\ heap = NoHeap
    /\ rs = NoResolve
    /\ built = NoBuilt
    /\ rpc = "start"

NextResolve ==
    \/ TupleFromPythonCall
    \/ ListFromPythonCall
    \/ Release

SpecResolve == InitResolve /\ [][NextResolve]_vars

(***************************************************************************)
(* Properties.  When ret.status # "none", ret is what the call of frame    *)
(* last has just returned.                                                 *)
(***************************************************************************)
Returned(kind) == ret.status # "none" /\ last.type.kind = kind
Max(a, b) == IF a >= b THEN a ELSE b
WidthFor(pv) == IF pv >= 3 THEN 4 ELSE 2
FailureEvents ==
    {"NegativeSize", "ItemTruncated", "ScalarTruncated", "CountTruncated",
     "NegativeCount"}

\* C1: a tuple decode that ends with its window exhausted after k complete
\* elements succeeds with an n-element result holding the k decoded values
\* in positions 0..k-1 and Null in every position from k on.
C1_TupleBackfillsTrailingNull ==
    (Returned("Tuple") /\ Residual(last) = 0 /\ events \cap FailureEvents = {})
        => /\ ret.status = "ok"
           /\ ret.value.len = Len(last.type.subs)
           /\ \A pos \in 0..(Len(last.type.subs) - 1) :
                 /\ Populated(ret.value, pos)
                 /\ ret.value.slots[pos + 1] =
                       IF pos < Len(last.decoded)
                       THEN last.decoded[pos + 1] ELSE Null

\* C2: ResolveSubtypes resolves the subtypes in declaration order; when
\* subtype i fails, it is the last one attempted, every reference resolved
\* for subtypes 0..i-1 has been deleted exactly once, the output sequence
\* is empty and the construction fails.
C2_ResolveReleasesOnFailure ==
    rpc = "built" =>
        /\ rs.ok =>
              /\ Len(rs.subtypes) = Len(desc.subtypes)
              /\ \A j \in 1..Len(rs.subtypes) :
                    /\ rs.subtypes[j].kind = KindOf(desc.subtypes[j].name)
                    /\ rs.subtypes[j].id = rs.attempted[j]
                    /\ j > 1 => rs.subtypes[j - 1].id < rs.subtypes[j].id
        /\ (~rs.ok /\ rs.attempted # <<>>) =>
              /\ Len(rs.attempted) <= Len(desc.subtypes)
              /\ rs.attempted[Len(rs.attempted)] = 0
              /\ \A j \in 1..(Len(rs.attempted) - 1) :
                    /\ rs.attempted[j] # 0
                    /\ Count(heap.log, <<"new", rs.attempted[j]>>) = 1
                    /\ Count(heap.log, <<"delete", rs.attempted[j]>>) = 1
              /\ rs.subtypes = <<>>
              /\ ~built.ok

C2_Witness ==
    /\ rpc = "built"
    /\ ~rs.ok
    /\ Len(desc.subtypes) = 4
    /\ Len(rs.attempted) = 3
    /\ Count(heap.log, <<"delete", rs.attempted[1]>>) = 1
    /\ Count(heap.log, <<"delete", rs.attempted[2]>>) = 1

\* C3: a failed construction of a composite type leaves none of the
\* subtype references it resolved allocated.
C3_FailedConstructionLeavesNothing ==
    (rpc = "built" /\ ~built.ok) => Live(heap) = {}

\* C4: a list decode reads its count prefix and its size fields with one
\* width w, 4 bytes from protocol version 3 on and 2 bytes below; after
\* decoding all c declared elements the buffer has advanced by exactly
\* w + sum(w + s_i).
C4_ListFieldWidth ==
    /\ \A d \in 1..Len(stack) :
          (stack[d].type.kind = "List" /\ stack[d].phase # "entry")
              => stack[d].w = WidthFor(stack[d].inpv)
    /\ (Returned("List") /\ ret.status = "ok" /\ last.i = last.count)
          => /\ last.w = WidthFor(last.inpv)
             /\ Len(last.sizes) = last.count
             /\ last.pos = WidthFor(last.inpv)
                   + SumSeq([j \in 1..Len(last.sizes) |->
                                WidthFor(last.inpv) + last.sizes[j]])

C4_Witness ==
    /\ stack = <<>>
    /\ Returned("List")
    /\ ret.status = "ok"
    /\ last.inpv < 3
    /\ last.count = 2
    /\ last.i = 2
    /\ last.pos = 6

\* C5: once a negative size field has been read, in a tuple or a list
\* under any protocol version, the decode fails with ValueError
\* (Malformed) all the way up: no Null element, no partial result.
C5_NegativeSizeIsMalformed ==
    "NegativeSize" \in events => ret = Err("ValueError")

C5_Witness ==
    /\ stack = <<>>
    /\ "NegativeSize" \in events
    /\ last.type.kind = "List"
    /\ last.inpv < 3
    /\ last.decoded # <<>>
    /\ ret = Err("ValueError")

\* C6: a tuple frames its elements with 4-byte size fields and decodes
\* every subtype under max(protocolVersion, 3), so a list nested in a tuple
\* reads 4-byte fields while a top-level list below version 3 reads 2-byte
\* fields.
C6_TupleForcesVersion3 ==
    \A d \in 1..Len(stack) :
        /\ (stack[d].type.kind = "Tuple" /\ stack[d].phase # "entry")
              => /\ stack[d].pv = Max(stack[d].inpv, 3)
                 /\ stack[d].w = 4
        /\ (d > 1 /\ stack[d - 1].type.kind = "Tuple")
              => /\ stack[d].inpv = Max(stack[d - 1].inpv, 3)
                 /\ (stack[d].type.kind = "List" /\ stack[d].phase # "entry")
                       => stack[d].w = 4
        /\ (d = 1 /\ stack[d].type.kind = "List" /\ stack[d].inpv < 3
               /\ stack[d].phase # "entry")
              => stack[d].w = 2

C6_Witness ==
    /\ Len(stack) = 2
    /\ stack[1].type.kind = "Tuple"
    /\ stack[1].inpv < 3
    /\ stack[2].type.kind = "List"
    /\ stack[2].phase = "loop"
    /\ stack[2].w = 4
    /\ stack[2].count = 1

\* C7: a list decode whose window ends after k < c complete elements
\* succeeds with a result of the declared length c whose positions 0..k-1
\* hold the decoded elements in wire order and whose positions k..c-1 are
\* unpopulated.
C7_ListShortLeavesUnpopulated ==
    (Returned("List") /\ last.brk # "none")
        => /\ ret.status = "ok"
           /\ Len(last.decoded) < last.count
           /\ ret.value.len = last.count
           /\ DOMAIN ret.value.slots = 1..Len(last.decoded)
           /\ \A j \in 1..Len(last.decoded) :
                 ret.value.slots[j] = last.decoded[j]

C7_Witness ==
    /\ Returned("List")
    /\ last.brk = "exhausted"
    /\ Len(last.decoded) = 1
    /\ last.count = 2
    /\ ret.value.len = 2
    /\ ~Populated(ret.value, 1)

\* C8: once an element's declared size exceeds what its buffer holds the
\* decode fails with EOFError (Truncated), and any failure of a nested
\* Deserialize fails every enclosing call: nothing more is decoded and no
\* result is returned.
C8_TruncatedItemAborts ==
    /\ "ItemTruncated" \in events => ret = Err("EOFError")
    /\ events \cap FailureEvents # {}
          => /\ ret.status = "err"
             /\ ret.value = NoValue
             /\ \A d \in 1..Len(stack) : stack[d].phase = "wait"

C8_Witness ==
    /\ stack = <<>>
    /\ "ItemTruncated" \in events
    /\ last.decoded # <<>>
    /\ ret = Err("EOFError")

\* C9: a size-field read that finds some but too few bytes left fails the
\* decode with EOFError (Truncated).
C9_ShortSizeFieldIsTruncated ==
    (ret.status # "none" /\ last.brk = "short") => ret = Err("EOFError")

\* C10: every buffer's cursor stays within its window and never moves
\* back; an item's buffer is exactly the declared size and ends where the
\* outer cursor stands, inside the outer window; the outer cursor stands
\* at the count prefix plus (field width + declared size) per item read.
Prefix(f) == IF f.type.kind = "List" THEN f.w ELSE 0

C10_Windows ==
    \A d \in 1..Len(stack) :
        LET f == stack[d] IN
        /\ 0 <= f.pos
        /\ f.pos <= f.len
        /\ 0 <= f.base
        /\ f.base + f.len <= Len(window)
        /\ f.phase \in {"loop", "wait", "drained"}
              => f.pos = Prefix(f)
                    + SumSeq([j \in 1..Len(f.sizes) |-> f.w + f.sizes[j]])
        /\ d > 1 =>
              LET o == stack[d - 1] IN
              /\ f.len = o.sizes[Len(o.sizes)]
              /\ f.base + f.len = o.base + o.pos
              /\ f.base >= o.base
              /\ f.base + f.len <= o.base + o.len

C10_Monotonic ==
    \A d \in 1..Len(stack) :
        d <= Len(stack') => /\ stack'[d].pos >= stack[d].pos
                            /\ stack'[d].base = stack[d].base
                            /\ stack'[d].len = stack[d].len

C10_BufferDiscipline == []C10_Windows /\ [][C10_Monotonic]_vars

C10_Witness ==
    /\ Len(stack) = 1
    /\ ret.status = "ok"
    /\ last.type.kind = "Boolean"
    /\ last.pos < last.len
    /\ stack[1].pos = stack[1].len
====
